---- MODULE Spec2Model ----
(***************************************************************************)
(* tcreader (src/libs/tcreader.cpp): the archive index and its forward-only *)
(* reader, the page cache, and the two-state event loop of ComicReader.     *)
(*                                                                          *)
(* Strings that the code inspects character by character (archive entry     *)
(* names) are sequences of one-character strings.  Page payloads are        *)
(* sequences of small integers (bytes).                                     *)
(***************************************************************************)
EXTENDS Integers, Sequences, FiniteSets

VARIABLES
    \* the members of ComicReader
    entries,        \* the directory listing, a sequence of FileEntry
    selected_idx,
    archive,        \* an ArchiveReader: its four fields
    page_cache,     \* page number -> bytes
    current_page,
    viewing_comic,
    current_comic_filename,
    zoom_level,     \* in tenths
    pan_x,
    pan_y,
    double_page,    \* config.double_page
    render_mode,    \* config.render_mode
    progress,       \* progress.data : file name -> page
    \* what surrounds it
    progress_file,  \* the contents of the progress file
    term,           \* the geometry get_term_size() returns
    raw_mode,       \* the terminal is in the mode enable_raw_mode() sets
    eof,            \* read() on stdin has stopped returning 1
    pc,             \* where run() is: "start", "loop", "exited", "crashed"
    \* what the last step did
    op,             \* the operation performed
    arg,            \* its argument (a page number), -1 when it has none
    prev_arg,       \* the argument of the read_page call before the last one
    ret,            \* the bytes the last read_page / load_page returned
    tokens,         \* the input tokens the last loop iteration consumed
    was_viewing,    \* viewing_comic when that iteration began
    drew,           \* what it redrew: "none", "list" or "comic"
    out             \* what the redraw wrote for the page(s), in order

members ==
    <<entries, selected_idx, archive, page_cache, current_page, viewing_comic,
      current_comic_filename, zoom_level, pan_x, pan_y, double_page,
      render_mode, progress, progress_file, term>>

loopVars == <<raw_mode, eof, pc, tokens, was_viewing, drew, out>>

callVars == <<op, arg, prev_arg, ret>>

vars == <<members, loopVars, callVars>>

(***************************************************************************)
(* Characters                                                               *)
(***************************************************************************)
Digits == <<"0", "1", "2", "3", "4", "5", "6", "7", "8", "9">>

Lower == <<"a", "b", "c", "d", "e", "f", "g", "h", "i", "j", "k", "l", "m",
           "n", "o", "p", "q", "r", "s", "t", "u", "v", "w", "x", "y", "z">>

Upper == <<"A", "B", "C", "D", "E", "F", "G", "H", "I", "J", "K", "L", "M",
           "N", "O", "P", "Q", "R", "S", "T", "U", "V", "W", "X", "Y", "Z">>

Range(s) == {s[k] : k \in DOMAIN s}

DigitSet == Range(Digits)

UpperSet == Range(Upper)

LowerSet == Range(Lower)

Chars == DigitSet \cup UpperSet \cup LowerSet \cup {".", "/", "_", "-"}

IndexIn(s, c) == CHOOSE k \in DOMAIN s : s[k] = c

\* the value of a char: ASCII
CodeTable ==
    [c \in Chars |->
        IF c \in DigitSet THEN 47 + IndexIn(Digits, c)
        ELSE IF c \in UpperSet THEN 64 + IndexIn(Upper, c)
        ELSE IF c \in LowerSet THEN 96 + IndexIn(Lower, c)
        ELSE IF c = "." THEN 46
        ELSE IF c = "/" THEN 47
        ELSE IF c = "_" THEN 95
        ELSE 45]

CharCode(c) == CodeTable[c]

isdigit(c) == c \in DigitSet

LowerTable ==
    [c \in Chars |-> IF c \in UpperSet THEN Lower[IndexIn(Upper, c)] ELSE c]

tolower(c) == LowerTable[c]

(***************************************************************************)
(* natural_sort_compare                                                     *)
(***************************************************************************)
\* the first index >= i of s that holds no digit (Len(s)+1 when none)
RECURSIVE DigitRunEnd(_, _)
DigitRunEnd(s, i) ==
    IF i <= Len(s) /\ isdigit(s[i]) THEN DigitRunEnd(s, i + 1) ELSE i

\* std::stoll of a run of digits (the names of the model stay far below 2^63)
RECURSIVE stoll(_)
stoll(s) ==
    IF s = <<>> THEN 0
    ELSE 10 * stoll(SubSeq(s, 1, Len(s) - 1)) + (CharCode(s[Len(s)]) - 48)

\* the loop of natural_sort_compare from positions i, j (1-based here)
RECURSIVE NaturalLoop(_, _, _, _)
NaturalLoop(a, b, i, j) ==
    IF i <= Len(a) /\ j <= Len(b)
    THEN IF isdigit(a[i]) /\ isdigit(b[j])
         THEN LET ie == DigitRunEnd(a, i)
                  je == DigitRunEnd(b, j)
                  num_a == stoll(SubSeq(a, i, ie - 1))
                  num_b == stoll(SubSeq(b, j, je - 1))
              IN  IF num_a # num_b THEN num_a < num_b
                  ELSE NaturalLoop(a, b, ie, je)
         ELSE IF a[i] # b[j] THEN CharCode(a[i]) < CharCode(b[j])
              ELSE NaturalLoop(a, b, i + 1, j + 1)
    ELSE Len(a) < Len(b)

natural_sort_compare(a, b) == NaturalLoop(a, b, 1, 1)

(***************************************************************************)
(* std::sort of records by name with natural_sort_compare (the lambdas of   *)
(* open and scan_directory).  With a strict weak ordering the result is a   *)
(* permutation without inversion (equivalent elements in any order); with   *)
(* any other comparator the behaviour is undefined: any permutation.        *)
(***************************************************************************)
NameLess(a, b) == natural_sort_compare(a.name, b.name)

StrictWeakOn(S) ==
    /\ \A x \in S : ~NameLess(x, x)
    /\ \A x, y, z \in S : NameLess(x, y) /\ NameLess(y, z) => NameLess(x, z)
    /\ \A x, y, z \in S :
          (~NameLess(x, y) /\ ~NameLess(y, x) /\ ~NameLess(y, z) /\ ~NameLess(z, y))
              => (~NameLess(x, z) /\ ~NameLess(z, x))

Perms(n) ==
    {p \in [1..n -> 1..n] : \A i, j \in 1..n : i # j => p[i] # p[j]}

SortOutcomes(s) ==
    LET n == Len(s)
        all == {[k \in 1..n |-> s[p[k]]] : p \in Perms(n)}
    IN  IF StrictWeakOn(Range(s))
        THEN {r \in all : \A i, j \in 1..n : i < j => ~NameLess(r[j], r[i])}
        ELSE all

(***************************************************************************)
(* Archive files.  A file is [ok, stream]: ok is whether                    *)
(* archive_read_open_filename succeeds, stream the entries in stream order. *)
(* An entry is [name, kind, data]; kind says what reading its payload does: *)
(*   "ok"      archive_read_data delivers the whole payload                 *)
(*   "empty"   the entry has size 0                                         *)
(*   "error"   archive_read_data returns a negative value                   *)
(*   "partial" archive_read_data delivers only the first byte               *)
(***************************************************************************)
Entry(name, kind, data) == [name |-> name, kind |-> kind, data |-> data]

File(ok, stream) == [ok |-> ok, stream |-> stream]

\* injective sequences over S of length 0..n
InjSeqs(S, n) ==
    UNION {{s \in [1..k -> S] : \A i, j \in 1..k : i # j => s[i] # s[j]} :
           k \in 0..n}

\* fs::path(name).extension(): from the last '.' of the last path component;
\* empty when there is none, or when the component starts with its only dot
Extension(name) ==
    LET slashes == {k \in DOMAIN name : name[k] = "/"}
        start == IF slashes = {} THEN 1
                 ELSE (CHOOSE k \in slashes : \A m \in slashes : m <= k) + 1
        dots == {k \in start..Len(name) : name[k] = "."}
        last == CHOOSE k \in dots : \A m \in dots : m <= k
    IN  IF dots = {} THEN <<>>
        ELSE IF last = start THEN <<>>
        ELSE IF SubSeq(name, start, Len(name)) = <<".", ".">> THEN <<>>
        ELSE SubSeq(name, last, Len(name))

ImageExtensions ==
    { <<".", "j", "p", "g">>, <<".", "j", "p", "e", "g">>,
      <<".", "p", "n", "g">>, <<".", "g", "i", "f">>,
      <<".", "w", "e", "b", "p">>, <<".", "b", "m", "p">> }

IsImageName(name) ==
    LET ext == Extension(name)
    IN  [k \in DOMAIN ext |-> tolower(ext[k])] \in ImageExtensions

(***************************************************************************)
(* ArchiveReader.  archive_handle is NullHandle for nullptr, else the       *)
(* number of headers the open libarchive stream has delivered so far.       *)
(***************************************************************************)
NullHandle == -1

NoEntry == -1

PageEntry(name, idx) == [name |-> name, index_in_archive |-> idx]

ClosedReader ==
    [archive_handle |-> NullHandle, archive_path |-> File(FALSE, <<>>),
     entries |-> <<>>, current_entry |-> NoEntry]

\* ArchiveReader::close
close(R) ==
    [R EXCEPT !.archive_handle = NullHandle, !.entries = <<>>,
              !.current_entry = NoEntry]

\* the indexing loop of open: the image entries, in stream order, each with
\* its position in the stream (idx counts every header, image or not)
RECURSIVE IndexEntries(_, _)
IndexEntries(stream, n) ==
    IF n = 0 THEN <<>>
    ELSE LET rest == IndexEntries(stream, n - 1)
         IN  IF IsImageName(stream[n].name)
             THEN Append(rest, PageEntry(stream[n].name, n - 1))
             ELSE rest

\* ArchiveReader::open: the set of [archive, ok] it can end in
open(R, path) ==
    IF ~path.ok
    THEN {[archive |-> [close(R) EXCEPT !.archive_path = path], ok |-> FALSE]}
    ELSE {[archive |-> [archive_handle |-> 0, archive_path |-> path,
                        entries |-> sorted, current_entry |-> NoEntry],
           ok |-> sorted # <<>>] :
          sorted \in SortOutcomes(IndexEntries(path.stream, Len(path.stream)))}

page_count(R) == Len(R.entries)

\* a read_page that reopens the stream only when the cursor is past the target
NeedRewindWhenPast(current_entry, target_idx) == current_entry > target_idx

\* a read_page that reopens the stream only on the first read
NeedRewindOnlyAtStart(current_entry, target_idx) == current_entry = NoEntry

\* line 325: when read_page reopens the stream
NeedRewind(current_entry, target_idx) ==
    current_entry > target_idx \/ current_entry = NoEntry

\* what archive_read_data leaves in the buffer of an entry
PayloadRead(e) ==
    IF e.kind = "ok" THEN e.data
    ELSE IF e.kind = "partial" THEN <<e.data[1]>> \o [k \in 1..(Len(e.data) - 1) |-> 0]
    ELSE <<>>

\* ArchiveReader::read_page: [archive, data, reopened], reopened telling
\* whether lines 327-332 closed and reopened the stream.  page_idx is a
\* size_t in the code: a negative int passed by load_page wraps to a huge
\* value.
read_page(R, page_idx) ==
    IF page_idx < 0 \/ page_idx >= Len(R.entries) \/ R.archive_handle = NullHandle
    THEN [archive |-> R, data |-> <<>>, reopened |-> FALSE]
    ELSE LET target_idx == R.entries[page_idx + 1].index_in_archive
             rewind == NeedRewind(R.current_entry, target_idx)
             handle == IF rewind THEN 0 ELSE R.archive_handle
             cur == IF rewind THEN NoEntry ELSE R.current_entry
             stream == R.archive_path.stream
             k == target_idx - cur      \* headers to read to reach the target
         IN  IF k >= 1 /\ handle + k <= Len(stream)
             THEN [archive |-> [R EXCEPT !.archive_handle = handle + k,
                                         !.current_entry = target_idx],
                   data |-> PayloadRead(stream[handle + k]),
                   reopened |-> rewind]
             ELSE \* every remaining header is read and skipped
                  [archive |-> [R EXCEPT !.archive_handle = Len(stream),
                                         !.current_entry = cur + (Len(stream) - handle)],
                   data |-> <<>>, reopened |-> rewind]

(***************************************************************************)
(* ComicReader.  A value S below is the object: a record of its members     *)
(* (config.double_page and config.render_mode appear as double_page and     *)
(* render_mode, progress.data as progress) together with what it reads and  *)
(* writes outside itself: term, the terminal geometry get_term_size()       *)
(* returns, and progress_file, the contents of the progress file.           *)
(* zoom_level is kept in tenths (10 is 1.0f): it only ever changes by 0.1f  *)
(* and is compared with 1.0f within 0.001f.                                 *)
(***************************************************************************)
FileEntry(name, is_directory, file) ==
    [name |-> name, is_directory |-> is_directory, full_path |-> file]

EmptyMap == [k \in {} |-> 0]

MapPut(m, k, v) == [x \in (DOMAIN m) \cup {k} |-> IF x = k THEN v ELSE m[x]]

MapKeep(m, K) == [x \in (DOMAIN m) \cap K |-> m[x]]

Abs(x) == IF x < 0 THEN -x ELSE x

Min(a, b) == IF a < b THEN a ELSE b

Max(a, b) == IF a > b THEN a ELSE b

\* C++ integer conversion and division truncate toward zero
TruncDiv(a, b) ==
    IF (a >= 0) = (b > 0) THEN Abs(a) \div Abs(b) ELSE -(Abs(a) \div Abs(b))

CacheRadius == 2

\* a load_page that evicts nothing
KeptPagesAll(cache, page_idx) == DOMAIN cache

\* a load_page that keeps no page but the one it inserts
KeptPagesNone(cache, page_idx) == {}

\* an eviction that looks behind the inserted page only
KeptPagesAhead(cache, page_idx) ==
    {idx \in DOMAIN cache : ~(page_idx - idx > CacheRadius)}

\* the eviction of load_page: the cached pages kept when page_idx is inserted
KeptPages(cache, page_idx) ==
    {idx \in DOMAIN cache : ~(Abs(idx - page_idx) > CacheRadius)}

\* a load_page that evicts whatever read_page returned
CacheLoadedEvictingFirst(S, page_idx, r) ==
    [S |-> [S EXCEPT
              !.archive = r.archive,
              !.page_cache =
                  IF r.data # <<>>
                  THEN MapPut(MapKeep(S.page_cache,
                                      KeptPages(S.page_cache, page_idx)),
                              page_idx, r.data)
                  ELSE MapKeep(S.page_cache, KeptPages(S.page_cache, page_idx))],
     data |-> r.data]

\* lines 470-479 of load_page: r is what archive.read_page returned
CacheLoaded(S, page_idx, r) ==
    IF r.data # <<>>
    THEN [S |-> [S EXCEPT
                   !.archive = r.archive,
                   !.page_cache =
                       MapPut(MapKeep(S.page_cache,
                                      KeptPages(S.page_cache, page_idx)),
                              page_idx, r.data)],
          data |-> r.data]
    ELSE [S |-> [S EXCEPT !.archive = r.archive], data |-> r.data]

\* ComicReader::load_page: [S, data]
load_page(S, page_idx) ==
    IF page_idx \in DOMAIN S.page_cache
    THEN [S |-> S, data |-> S.page_cache[page_idx]]
    ELSE CacheLoaded(S, page_idx, read_page(S.archive, page_idx))

\* line 488
PreloadPrev(S) ==
    IF S.current_page > 0 THEN load_page(S, S.current_page - 1).S ELSE S

\* ComicReader::preload_adjacent
preload_adjacent(S) ==
    PreloadPrev(IF S.current_page + 1 < page_count(S.archive)
                THEN load_page(S, S.current_page + 1).S ELSE S)

\* stbi_load_from_memory: the images of the model are two bytes, width and
\* height; a zero in either does not decode
Decodes(img_data) == Len(img_data) = 2 /\ img_data[1] > 0 /\ img_data[2] > 0

StatusBand == 100

PanStep == 50

\* lines 556-558 of render_kitty: <<target_w, target_h>>
KittyTarget(S, width_px) ==
    <<IF width_px > 0 THEN width_px ELSE S.term.pixel_width,
      S.term.pixel_height - StatusBand>>

\* lines 560-565: <<new_w, new_h>>; scale is min(target_w / w, target_h / h)
\* * zoom_level, taken exactly
KittyScaled(S, img_data, target) ==
    LET w == img_data[1]
        h == img_data[2]
    IN  IF target[1] * h <= target[2] * w
        THEN <<TruncDiv(target[1] * S.zoom_level, 10),
               TruncDiv(h * target[1] * S.zoom_level, w * 10)>>
        ELSE <<TruncDiv(w * target[2] * S.zoom_level, h * 10),
               TruncDiv(target[2] * S.zoom_level, 10)>>

\* lines 568-569: <<max_pan_x, max_pan_y>>
KittyMaxPan(scaled, target) ==
    <<Max(0, scaled[1] - target[1]), Max(0, scaled[2] - target[2])>>

\* std::clamp(v, lo, hi) with lo <= hi
clamp(v, lo, hi) == IF v < lo THEN lo ELSE IF hi < v THEN hi ELSE v

\* a render that leaves the pan offsets as they were requested
ClampedPanAsRequested(S, img_data, width_px) == <<S.pan_x, S.pan_y>>

\* lines 556-571 of render_kitty: the clamped pan offsets <<pan_x, pan_y>>
ClampedPan(S, img_data, width_px) ==
    LET target == KittyTarget(S, width_px)
        max_pan == KittyMaxPan(KittyScaled(S, img_data, target), target)
    IN  <<clamp(S.pan_x, -max_pan[1], 0), clamp(S.pan_y, -max_pan[2], 0)>>

\* lines 580-583: the crop rectangle, S holding the clamped offsets
CropRect(S, scaled, target) ==
    LET crop_x == Abs(S.pan_x)
        crop_y == Abs(S.pan_y)
    IN  [crop_x |-> crop_x, crop_y |-> crop_y,
         crop_w |-> Min(scaled[1] - crop_x, target[1]),
         crop_h |-> Min(scaled[2] - crop_y, target[2])]

\* base64_encode: the length of the encoding of len bytes
base64_length(len) == 4 * (len \div 3) + (IF len % 3 = 0 THEN 0 ELSE 4)

\* lines 601-604: <<cols_needed, rows_needed>>
CellsNeeded(S, crop) ==
    LET char_w == TruncDiv(S.term.pixel_width, S.term.cols)
        char_h == TruncDiv(S.term.pixel_height, S.term.rows)
    IN  <<TruncDiv(crop.crop_w + char_w - 1, char_w),
          TruncDiv(crop.crop_h + char_h - 1, char_h)>>

\* lines 607-614: the cursor positioning sequence ESC [ row ; col H
CursorTo(S, target, cells, col_offset) ==
    LET char_w == TruncDiv(S.term.pixel_width, S.term.cols)
        char_h == TruncDiv(S.term.pixel_height, S.term.rows)
        col_center == col_offset + TruncDiv(TruncDiv(target[1], char_w) - cells[1], 2)
        row_center == TruncDiv(TruncDiv(target[2], char_h) - cells[2], 2) + 1
    IN  [kind |-> "cursor", row |-> Max(1, row_center),
         col |-> Max(0, col_center) + 1]

chunk_sz == 4096

\* a transmission that sends what is left of the payload as one final frame
KittyFramesUnsplit(size, offset, dims) ==
    IF offset < size
    THEN <<[kind |-> "frame", dims |-> dims, m |-> 0, offset |-> offset,
            payload |-> size - offset]>>
    ELSE <<>>

\* lines 619-639: the frames written from `offset` on for an encoding of
\* `size` characters; the first one carries dims = <<s, v, c, r>>
RECURSIVE KittyFrames(_, _, _)
KittyFrames(size, offset, dims) ==
    IF offset < size
    THEN LET remain == size - offset
             this_chunk == Min(chunk_sz, remain)
             last == offset + this_chunk >= size
         IN  <<[kind |-> "frame",
                dims |-> IF offset = 0 THEN dims ELSE <<>>,
                m |-> IF last THEN 0 ELSE 1,
                offset |-> offset,
                payload |-> this_chunk]>>
             \o KittyFrames(size, offset + this_chunk, dims)
    ELSE <<>>

\* lines 567-571: the clamped offsets are stored back
StorePan(S, pan) == [S EXCEPT !.pan_x = pan[1], !.pan_y = pan[2]]

\* a render that resets the pan offsets when the image does not decode
render_kittyResetOnFailure(S, img_data, col_offset, width_px) ==
    IF ~Decodes(img_data)
    THEN [S |-> StorePan(S, <<0, 0>>), out |-> <<"decode_notice">>]
    ELSE [S |-> StorePan(S, ClampedPan(S, img_data, width_px)),
          out |-> <<"kitty_image">>]

\* ComicReader::render_kitty: [S, out], out what it wrote
render_kitty(S, img_data, col_offset, width_px) ==
    IF ~Decodes(img_data)
    THEN [S |-> S, out |-> <<"decode_notice">>]
    ELSE [S |-> StorePan(S, ClampedPan(S, img_data, width_px)),
          out |-> <<"kitty_image">>]

\* lines 572-639 of render_kitty for an image that decoded, T the members
\* after the clamp: what was computed and what was written to stdout
KittyImage(T, img_data, col_offset, width_px) ==
    LET target == KittyTarget(T, width_px)
        scaled == KittyScaled(T, img_data, target)
        crop == CropRect(T, scaled, target)
        cells == CellsNeeded(T, crop)
        size == base64_length(crop.crop_w * crop.crop_h * 3)
    IN  [target |-> target, scaled |-> scaled, crop |-> crop, b64_size |-> size,
         writes |-> <<CursorTo(T, target, cells, col_offset)>>
                    \o KittyFrames(size, 0, <<crop.crop_w, crop.crop_h>> \o cells)]

\* ComicReader::render_kitty: what it wrote to stdout, in order
KittyWrites(S, img_data, col_offset, width_px) ==
    IF ~Decodes(img_data) THEN [writes |-> <<[kind |-> "notice"]>>]
    ELSE KittyImage(render_kitty(S, img_data, col_offset, width_px).S,
                    img_data, col_offset, width_px)

\* ComicReader::display_image
display_image(S, img_data, x_offset, width) ==
    IF img_data = <<>> THEN [S |-> S, out |-> <<"empty_notice">>]
    ELSE IF S.render_mode = "KITTY" THEN render_kitty(S, img_data, x_offset, width)
    ELSE IF S.render_mode = "TIMG" THEN [S |-> S, out |-> <<"timg_image">>]
    ELSE [S |-> S,
          out |-> IF Decodes(img_data) THEN <<"ascii_image">>
                  ELSE <<"decode_notice">>]

\* line 720
effective_double(S) ==
    S.double_page /\ S.zoom_level = 10 /\ S.render_mode \in {"KITTY", "TIMG"}

\* lines 733-736 and 740-741: a page is displayed only when it is not empty
ShowData(S, data, x_offset, width) ==
    IF data # <<>> THEN display_image(S, data, x_offset, width)
    ELSE [S |-> S, out |-> <<>>]

\* lines 735-736: the right-hand page, after the left-hand one wrote d1
ShowRight(d1, p2) ==
    [S |-> ShowData(d1.S, p2, d1.S.term.cols \div 2,
                    d1.S.term.pixel_width \div 2).S,
     out |-> d1.out \o ShowData(d1.S, p2, d1.S.term.cols \div 2,
                                d1.S.term.pixel_width \div 2).out]

\* lines 727-736: p1 is loaded, l2 the load of the page after it
ShowBoth(p1, l2) ==
    ShowRight(ShowData(l2.S, p1, 0, l2.S.term.pixel_width \div 2), l2.data)

\* lines 726-727
ShowSpread(l1) ==
    ShowBoth(l1.data, load_page(l1.S, l1.S.current_page + 1))

\* lines 739-741
ShowSingle(l) == ShowData(l.S, l.data, 0, 0)

\* lines 720-742
ShowPages(S) ==
    IF effective_double(S) /\ S.current_page + 1 < page_count(S.archive)
    THEN ShowSpread(load_page(S, S.current_page))
    ELSE ShowSingle(load_page(S, S.current_page))

\* a draw that sets the progress entry and leaves the file as it was
SaveProgressUnwritten(S) ==
    [S EXCEPT
       !.progress = MapPut(S.progress, S.current_comic_filename, S.current_page)]

\* lines 764-765: the progress entry is set and the file is written
SaveProgress(S) ==
    [S EXCEPT
       !.progress = MapPut(S.progress, S.current_comic_filename, S.current_page),
       !.progress_file =
           MapPut(S.progress, S.current_comic_filename, S.current_page)]

\* lines 763-768
SaveAndPreload(shown) ==
    [S |-> preload_adjacent(SaveProgress(shown.S)), out |-> shown.out]

\* ComicReader::draw_comic_view: [S, out]
draw_comic_view(S) == SaveAndPreload(ShowPages(S))

(***************************************************************************)
(* The event loop of ComicReader::run.  Input tokens are one-character      *)
(* strings, "ESC" (\\033), "ENTER" (\\n), "CR" (\\r), and "EOF" for a read()  *)
(* that does not return 1.  One iteration of the loop consumes the tokens   *)
(* inp[1..n]; a result is [S, n, drew, out, exit, crashed].                 *)
(***************************************************************************)
\* Config(): the default key map, lines 152-181 (one-token bindings)
keymap ==
    [quit |-> "q", refresh |-> "r", toggle_help |-> "?", first_page |-> "g",
     last_page |-> "G", next |-> "l", prev |-> "h", up |-> "k", down |-> "j",
     zoom_in |-> "=", zoom_out |-> "-", zoom_out_alt |-> "_", zoom_reset |-> "0",
     pan_up |-> "K", pan_down |-> "J", pan_left |-> "H", pan_right |-> "L",
     toggle_spread |-> "s", double_page |-> "d"]

ZoomMin == 5

ZoomMax == 30

ZoomDefault == 10

\* Config::double_page, line 145
DoublePageDefault == FALSE

Result(S, n, d, o) ==
    [S |-> S, n |-> n, drew |-> d, out |-> o, exit |-> FALSE, crashed |-> FALSE]

\* a loop iteration that ended in draw_comic_view, which returned d
Drawn(d, n) == Result(d.S, n, "comic", d.out)

\* ComicReader::scan_directory, the directory holding `listing` at that time
scan_directory(S, listing) ==
    [S EXCEPT !.entries = listing,
              !.selected_idx = IF S.selected_idx >= Len(listing) THEN 0
                               ELSE S.selected_idx]

\* an open that leaves zoom and pan as the previous view left them
EnterViewKeepingZoom(S, fe, R) ==
    [S EXCEPT !.archive = R,
              !.viewing_comic = TRUE,
              !.current_comic_filename = fe.name]

\* lines 860-863: the view is entered on the archive R just opened
EnterView(S, fe, R) ==
    [S EXCEPT !.archive = R,
              !.viewing_comic = TRUE,
              !.current_comic_filename = fe.name,
              !.zoom_level = ZoomDefault,
              !.pan_x = 0, !.pan_y = 0]

\* lines 866-872: the page restored when an archive is opened
RestoredPage(S, name) ==
    IF name \in DOMAIN S.progress
    THEN IF S.progress[name] >= page_count(S.archive) THEN 0 ELSE S.progress[name]
    ELSE 0

RestorePage(S) ==
    [S EXCEPT !.current_page = RestoredPage(S, S.current_comic_filename)]

\* lines 859-879: o is what archive.open returned
Opened(S, fe, o) ==
    IF o.ok
    THEN Drawn(draw_comic_view(RestorePage(EnterView(S, fe, o.archive))), 1)
    ELSE Result([S EXCEPT !.archive = o.archive], 1, "list", <<"open_failed">>)

\* lines 850-880: Enter on the entry fe
OpenEntry(S, fe, Listings) ==
    IF fe.is_directory
    THEN {Result(scan_directory([S EXCEPT !.selected_idx = 0], l), 1, "list", <<>>) :
            l \in Listings}
    ELSE {Opened(S, fe, o) : o \in open(S.archive, fe.full_path)}

\* line 850: what entries[selected_idx] yields; Wild is what an
\* out-of-bounds read with a negative selected_idx can yield
Selected(S, Wild) ==
    IF S.selected_idx < 0 THEN Wild ELSE {S.entries[S.selected_idx + 1]}

\* lines 794-881: one iteration while the file list is shown.  Listings are
\* the listings a scan can find.
browse_key(S, inp, Listings, Wild) ==
    LET c == inp[1]
        size == Len(S.entries)
        same == {Result(S, 1, "none", <<>>)}
        list(T) == {Result(T, 1, "list", <<>>)}
    IN  IF c = keymap.quit
        THEN {[Result(S, 1, "none", <<>>) EXCEPT !.exit = TRUE]}
        ELSE IF c = keymap.refresh
        THEN {Result(scan_directory(S, l), 1, "list", <<>>) : l \in Listings}
        ELSE IF c = keymap.toggle_help THEN list(S)
        ELSE IF c = keymap.first_page THEN list([S EXCEPT !.selected_idx = 0])
        ELSE IF c = keymap.last_page
        THEN list([S EXCEPT !.selected_idx = size - 1])
        ELSE IF c = keymap.up /\ S.selected_idx > 0
        THEN list([S EXCEPT !.selected_idx = @ - 1])
        ELSE IF c = keymap.down /\ S.selected_idx < size - 1
        THEN list([S EXCEPT !.selected_idx = @ + 1])
        ELSE IF c = "ESC"
        THEN IF inp[2] = "EOF" THEN {Result(S, 2, "none", <<>>)}
             ELSE IF inp[3] = "EOF" THEN {Result(S, 3, "none", <<>>)}
             ELSE IF inp[2] = "[" /\ inp[3] = "A" /\ S.selected_idx > 0
             THEN {Result([S EXCEPT !.selected_idx = @ - 1], 3, "list", <<>>)}
             ELSE IF inp[2] = "[" /\ inp[3] = "B" /\ S.selected_idx < size - 1
             THEN {Result([S EXCEPT !.selected_idx = @ + 1], 3, "list", <<>>)}
             ELSE {Result(S, 3, "none", <<>>)}
        ELSE IF c = "ENTER" \/ c = "CR"
        THEN IF size = 0 \/ S.selected_idx >= size THEN same
             ELSE {r \in {[Result(S, 1, "none", <<>>) EXCEPT !.crashed = TRUE]} :
                     S.selected_idx < 0}
                  \cup UNION {OpenEntry(S, fe, Listings) : fe \in Selected(S, Wild)}
        ELSE same

\* the lambda do_pan, lines 891-900: [S, navigate]
do_pan(S, dir) ==
    IF S.zoom_level = ZoomDefault THEN [S |-> S, navigate |-> FALSE]
    ELSE [S |-> IF dir = "K" THEN [S EXCEPT !.pan_y = @ + PanStep]
                ELSE IF dir = "J" THEN [S EXCEPT !.pan_y = @ - PanStep]
                ELSE IF dir = "H" THEN [S EXCEPT !.pan_x = @ + PanStep]
                ELSE IF dir = "L" THEN [S EXCEPT !.pan_x = @ - PanStep]
                ELSE S,
          navigate |-> TRUE]

\* a quit that neither closes the archive nor clears the page cache
LeaveViewKeepingSession(S) == [S EXCEPT !.viewing_comic = FALSE]

\* a quit that does not clear the page cache
LeaveViewKeepingCache(S) ==
    [S EXCEPT !.viewing_comic = FALSE, !.archive = close(S.archive)]

\* lines 907-909 and 973-975: leave the comic view
LeaveView(S) ==
    [S EXCEPT !.viewing_comic = FALSE, !.archive = close(S.archive),
              !.page_cache = EmptyMap]

\* line 888
PageStep(S) == IF S.double_page THEN 2 ELSE 1

\* lines 937-939 and 947-949: the page after a next-page key, [S, navigate]
NextPage(S) ==
    IF S.current_page + PageStep(S) < page_count(S.archive)
    THEN [S |-> [S EXCEPT !.current_page = @ + PageStep(S)], navigate |-> TRUE]
    ELSE [S |-> S, navigate |-> FALSE]

\* lines 940-942 and 951-953
PrevPage(S) ==
    IF S.current_page > 0
    THEN [S |-> [S EXCEPT !.current_page = Max(0, @ - PageStep(S))],
          navigate |-> TRUE]
    ELSE [S |-> S, navigate |-> FALSE]

Nav(S) == [S |-> S, navigate |-> TRUE]

Stay(S) == [S |-> S, navigate |-> FALSE]

\* what one iteration in the view did before line 1006: t is [S, navigate],
\* n the tokens consumed, how the iteration ends ("redraw" falls through to
\* line 1006, "continue" skips it, "leave" returns to the file list)
Key(t, n, how) == [S |-> t.S, navigate |-> t.navigate, n |-> n, how |-> how]

ShiftArrow(dir) ==
    IF dir = "A" THEN "K" ELSE IF dir = "B" THEN "J"
    ELSE IF dir = "C" THEN "L" ELSE IF dir = "D" THEN "H" ELSE "none"

\* lines 903-945: an iteration that began with ESC
view_escape(S, inp) ==
    IF inp[2] = "EOF" THEN Key(Stay(S), 2, "leave")
    ELSE IF inp[3] = "EOF" THEN Key(Stay(S), 3, "continue")
    ELSE IF inp[2] = "["
    THEN IF inp[3] = "1"
         THEN IF inp[4] = "EOF" THEN Key(Stay(S), 4, "continue")
              ELSE IF inp[5] = "EOF" THEN Key(Stay(S), 5, "continue")
              ELSE IF inp[6] = "EOF" THEN Key(Stay(S), 6, "continue")
              ELSE IF inp[4] # ";" \/ inp[5] # "2" THEN Key(Stay(S), 6, "continue")
              ELSE IF S.zoom_level # ZoomDefault
              THEN Key(do_pan(S, ShiftArrow(inp[6])), 6, "continue")
              ELSE Key(Stay(S), 6, "continue")
         ELSE IF inp[3] = "C" THEN Key(NextPage(S), 3, "redraw")
         ELSE IF inp[3] = "D" THEN Key(PrevPage(S), 3, "redraw")
         ELSE Key(Stay(S), 3, "redraw")
    ELSE Key(Stay(S), 3, "redraw")

\* a zoom-in that does not saturate
ZoomInUnbounded(S) == [S EXCEPT !.zoom_level = @ + 1]

\* line 980
ZoomIn(S) == [S EXCEPT !.zoom_level = Min(@ + 1, ZoomMax)]

\* line 984
ZoomOut(S) == [S EXCEPT !.zoom_level = Max(@ - 1, ZoomMin)]

\* lines 988-989
ZoomReset(S) == [S EXCEPT !.zoom_level = ZoomDefault, !.pan_x = 0, !.pan_y = 0]

\* lines 947-1003: an iteration that began with any other token c
view_plain(S, c) ==
    IF c = keymap.next /\ NextPage(S).navigate THEN Key(NextPage(S), 1, "redraw")
    ELSE IF c = keymap.prev /\ PrevPage(S).navigate
    THEN Key(PrevPage(S), 1, "redraw")
    ELSE IF c = keymap.first_page
    THEN Key(Nav([S EXCEPT !.current_page = 0]), 1, "redraw")
    ELSE IF c = keymap.last_page
    THEN Key(Nav([S EXCEPT !.current_page = page_count(S.archive) - 1]), 1,
             "redraw")
    ELSE IF c = keymap.toggle_spread \/ c = keymap.double_page
    THEN Key(Nav([S EXCEPT !.double_page = ~@]), 1, "redraw")
    ELSE IF c = keymap.toggle_help THEN Key(Nav(S), 1, "redraw")
    ELSE IF c = keymap.quit THEN Key(Stay(S), 1, "leave")
    ELSE IF c = keymap.zoom_in THEN Key(Nav(ZoomIn(S)), 1, "redraw")
    ELSE IF c = keymap.zoom_out \/ c = keymap.zoom_out_alt
    THEN Key(Nav(ZoomOut(S)), 1, "redraw")
    ELSE IF c = keymap.zoom_reset THEN Key(Nav(ZoomReset(S)), 1, "redraw")
    ELSE IF c = keymap.pan_up THEN Key(do_pan(S, "K"), 1, "redraw")
    ELSE IF c = keymap.pan_down THEN Key(do_pan(S, "J"), 1, "redraw")
    ELSE IF c = keymap.pan_left THEN Key(do_pan(S, "H"), 1, "redraw")
    ELSE IF c = keymap.pan_right THEN Key(do_pan(S, "L"), 1, "redraw")
    ELSE Key(Stay(S), 1, "redraw")

\* lines 907-911, 973-977 and 1006-1008: how the iteration k ends
EndIteration(k) ==
    IF k.how = "leave" THEN Result(LeaveView(k.S), k.n, "list", <<>>)
    ELSE IF k.how = "redraw" /\ k.navigate THEN Drawn(draw_comic_view(k.S), k.n)
    ELSE Result(k.S, k.n, "none", <<>>)

\* lines 886-1009: one iteration while a comic is shown
view_key(S, inp) ==
    EndIteration(IF inp[1] = "ESC" THEN view_escape(S, inp)
                 ELSE view_plain(S, inp[1]))

(***************************************************************************)
(* The program as a state machine                                           *)
(***************************************************************************)
Self ==
    [entries |-> entries, selected_idx |-> selected_idx, archive |-> archive,
     page_cache |-> page_cache, current_page |-> current_page,
     viewing_comic |-> viewing_comic,
     current_comic_filename |-> current_comic_filename,
     zoom_level |-> zoom_level, pan_x |-> pan_x, pan_y |-> pan_y,
     double_page |-> double_page, render_mode |-> render_mode,
     progress |-> progress, progress_file |-> progress_file, term |-> term]

Commit(S) ==
    /\ entries' = S.entries
    /\ selected_idx' = S.selected_idx
    /\ archive' = S.archive
    /\ page_cache' = S.page_cache
    /\ current_page' = S.current_page
    /\ viewing_comic' = S.viewing_comic
    /\ current_comic_filename' = S.current_comic_filename
    /\ zoom_level' = S.zoom_level
    /\ pan_x' = S.pan_x
    /\ pan_y' = S.pan_y
    /\ double_page' = S.double_page
    /\ render_mode' = S.render_mode
    /\ progress' = S.progress
    /\ progress_file' = S.progress_file
    /\ term' = S.term

\* the archives and directories of the model's file system
ImgEntry(c, kind, w, h) == Entry(<<"p", c, ".", "p", "n", "g">>, kind, <<w, h>>)

TextEntry == Entry(<<"n", ".", "t", "x", "t">>, "ok", <<9, 9>>)

NoFile == File(FALSE, <<>>)

ComicG ==
    FileEntry("g.cbz", FALSE,
              File(TRUE, <<TextEntry, ImgEntry("2", "ok", 2, 2),
                           ImgEntry("1", "ok", 1, 2), ImgEntry("3", "ok", 1, 1)>>))

ComicZ == FileEntry("z.cbz", FALSE, File(TRUE, <<TextEntry>>))

ComicU == FileEntry("u.cbz", FALSE, NoFile)

\* the parent entry scan_directory puts first, lines 419-425
DirUp == FileEntry("..", TRUE, NoFile)

\* what a scan finds: the parent entry, then the archives in natural order
Listings == { <<DirUp, ComicG, ComicU, ComicZ>> }

Terms ==
    { [rows |-> 4, cols |-> 4, pixel_width |-> 40, pixel_height |-> 180] }

\* the progress files the program can find at startup
SavedPages == {-1, 3}

ProgressInits == {EmptyMap} \cup {MapPut(EmptyMap, "g.cbz", v) : v \in SavedPages}

\* the model follows zoom levels within ZoomSpan tenths of 1.0 and pan
\* offsets within MaxPan pixels
ZoomSpan == 1

MaxPan == 50

WithinCaps(S) ==
    /\ Abs(S.zoom_level - ZoomDefault) <= ZoomSpan
    /\ Abs(S.pan_x) <= MaxPan
    /\ Abs(S.pan_y) <= MaxPan

Init ==
    /\ entries \in Listings
    /\ selected_idx = 0
    /\ archive = ClosedReader
    /\ page_cache = EmptyMap
    /\ current_page = 0
    /\ viewing_comic = FALSE
    /\ current_comic_filename = ""
    /\ zoom_level = ZoomDefault
    /\ pan_x = 0
    /\ pan_y = 0
    /\ double_page = DoublePageDefault
    /\ render_mode \in {"KITTY", "TIMG", "ASCII"}
    /\ progress \in ProgressInits
    /\ progress_file = progress
    /\ term \in Terms
    /\ raw_mode = FALSE
    /\ eof = FALSE
    /\ pc = "start"
    /\ op = "init"
    /\ arg = -1
    /\ prev_arg = -1
    /\ ret = <<>>
    /\ tokens = <<>>
    /\ was_viewing = FALSE
    /\ drew = "none"
    /\ out = <<>>

\* the token sequences one iteration can consume: every key the state
\* binds, "x" for every other token, and the escape sequences with "l" for
\* a token that continues none
BrowseInputs ==
    {<<keymap[k]>> : k \in {"quit", "refresh", "toggle_help", "first_page",
                             "last_page", "up", "down"}}
    \cup {<<"ENTER">>, <<"CR">>, <<"x">>}
    \cup {<<"ESC", "EOF">>, <<"ESC", "[", "EOF">>, <<"ESC", "l", "A">>}
    \cup {<<"ESC", "[", b>> : b \in {"A", "B"}}

ViewInputs ==
    {<<keymap[k]>> : k \in (DOMAIN keymap) \ {"refresh", "up", "down"}}
    \cup {<<"x">>}
    \cup {<<"ESC", "EOF">>, <<"ESC", "l", "EOF">>, <<"ESC", "l", "l">>}
    \cup {<<"ESC", "[", b>> : b \in {"A", "C", "D"}}
    \cup {<<"ESC", "[", "1", ";", "EOF">>, <<"ESC", "[", "1", ";", "l", "A">>}
    \cup {<<"ESC", "[", "1", ";", "2", d>> : d \in {"A", "B", "C", "D", "l"}}

Padded(inp) == inp \o <<"PAD", "PAD", "PAD", "PAD", "PAD">>

EndsInput(inp) == inp[Len(inp)] = "EOF"

\* lines 395-400: raw_mode tells whether ECHO and ICANON are cleared on
\* stdin; orig_termios, read at line 396, has them set
enable_raw_mode(mode) == TRUE

\* an exit that leaves the terminal as it is
disable_raw_modeSkipped(mode) == mode

\* lines 401-403: tcsetattr with orig_termios
disable_raw_mode(mode) == FALSE

\* lines 786-787: run() begins
Start ==
    /\ pc = "start"
    /\ pc' = "loop"
    /\ raw_mode' = enable_raw_mode(raw_mode)
    /\ drew' = "list"
    /\ op' = "start"
    /\ UNCHANGED <<members, eof, tokens, was_viewing, out, arg, prev_arg, ret>>

Finish(r, inp) ==
    /\ Commit(r.S)
    /\ tokens' = inp
    /\ was_viewing' = viewing_comic
    /\ drew' = r.drew
    /\ out' = r.out
    /\ eof' = EndsInput(inp)
    /\ pc' = IF r.exit THEN "exited" ELSE IF r.crashed THEN "crashed" ELSE "loop"
    /\ raw_mode' = IF r.exit THEN disable_raw_mode(raw_mode) ELSE raw_mode
    /\ op' = "key"
    /\ UNCHANGED <<arg, prev_arg, ret>>

\* one iteration of the loop in the file list
BrowseStep ==
    /\ pc = "loop" /\ ~eof /\ ~viewing_comic
    /\ \E inp \in BrowseInputs :
          \E r \in browse_key(Self, Padded(inp), Listings, {ComicG, DirUp}) :
              /\ r.n = Len(inp)
              /\ Finish(r, inp)

\* one iteration of the loop in the comic view
ViewStep ==
    /\ pc = "loop" /\ ~eof /\ viewing_comic
    /\ \E inp \in ViewInputs :
          \E r \in {view_key(Self, Padded(inp))} :
              /\ r.n = Len(inp)
              /\ WithinCaps(r.S)
              /\ Finish(r, inp)

\* line 790 fails and lines 1013-1014 run: the loop ends at the end of input
EndOfInput ==
    /\ pc = "loop"
    /\ pc' = "exited"
    /\ raw_mode' = disable_raw_mode(raw_mode)
    /\ eof' = TRUE
    /\ tokens' = <<"EOF">>
    /\ was_viewing' = viewing_comic
    /\ drew' = "none"
    /\ out' = <<>>
    /\ op' = "key"
    /\ UNCHANGED <<members, arg, prev_arg, ret>>

Next == Start \/ BrowseStep \/ ViewStep \/ EndOfInput

Spec == Init /\ [][Next]_vars

(***************************************************************************)
(* The event loop over the whole zoom range: the file list is given only    *)
(* the keys that open an archive, the view the zoom keys, two pan keys and  *)
(* quit.                                                                    *)
(***************************************************************************)
ZoomBrowseInputs == {<<keymap.down>>, <<"ENTER">>}

ZoomViewInputs ==
    {<<keymap[k]>> : k \in {"zoom_in", "zoom_out", "zoom_out_alt", "zoom_reset",
                             "pan_left", "pan_down", "quit"}}

PanWithinCap(S) == Abs(S.pan_x) <= MaxPan /\ Abs(S.pan_y) <= MaxPan

ZmBrowse ==
    /\ pc = "loop" /\ ~eof /\ ~viewing_comic
    /\ \E inp \in ZoomBrowseInputs :
          \E r \in browse_key(Self, Padded(inp), Listings, {}) :
              /\ r.n = Len(inp)
              /\ Finish(r, inp)

ZmView ==
    /\ pc = "loop" /\ ~eof /\ viewing_comic
    /\ \E inp \in ZoomViewInputs :
          \E r \in {view_key(Self, Padded(inp))} :
              /\ r.n = Len(inp)
              /\ PanWithinCap(r.S)
              /\ Finish(r, inp)

ZmNext == Start \/ ZmBrowse \/ ZmView

SpecZoom == Init /\ [][ZmNext]_vars

(***************************************************************************)
(* The event loop fed whole key sequences as a terminal sends them: a key   *)
(* is one token, a function or cursor key an escape sequence of three to    *)
(* six tokens.  ret holds the tokens of the last sequence that the loop has *)
(* not read yet; the next iteration starts with them.                       *)
(***************************************************************************)
ShiftUp == <<"ESC", "[", "1", ";", "2", "A">>

KeyF9 == <<"ESC", "[", "2", "0", "~">>

KeyDelete == <<"ESC", "[", "3", "~">>

KeyF1 == <<"ESC", "O", "P">>

TerminalKeys ==
    {<<keymap[k]>> : k \in {"down", "next", "zoom_in", "quit"}}
    \cup {<<"ENTER">>}
    \cup {<<"ESC", "[", b>> : b \in {"A", "B", "C", "D"}}
    \cup {ShiftUp, KeyF9, KeyDelete, KeyF1}

Unread == IF ret = <<>> THEN TerminalKeys ELSE {ret}

\* the iteration r read the first r.n tokens of inp
FinishRead(r, inp) ==
    /\ r.n <= Len(inp)
    /\ WithinCaps(r.S)
    /\ Commit(r.S)
    /\ tokens' = SubSeq(inp, 1, r.n)
    /\ ret' = SubSeq(inp, r.n + 1, Len(inp))
    /\ was_viewing' = viewing_comic
    /\ drew' = r.drew
    /\ out' = r.out
    /\ eof' = FALSE
    /\ pc' = IF r.exit THEN "exited" ELSE IF r.crashed THEN "crashed" ELSE "loop"
    /\ raw_mode' = IF r.exit THEN disable_raw_mode(raw_mode) ELSE raw_mode
    /\ op' = "key"
    /\ UNCHANGED <<arg, prev_arg>>

EscBrowse ==
    /\ pc = "loop" /\ ~viewing_comic
    /\ \E inp \in Unread :
          \E r \in browse_key(Self, Padded(inp), Listings, {}) : FinishRead(r, inp)

EscView ==
    /\ pc = "loop" /\ viewing_comic
    /\ \E inp \in Unread :
          \E r \in {view_key(Self, Padded(inp))} : FinishRead(r, inp)

EscNext == Start \/ EscBrowse \/ EscView

SpecEscape == Init /\ [][EscNext]_vars

(***************************************************************************)
(* The event loop over a directory of two comics whose pages differ at      *)
(* every ordinal, and one archive without images: archives are opened one   *)
(* after the other.  The last page of h.cbz cannot be read.                 *)
(***************************************************************************)
ComicH ==
    FileEntry("h.cbz", FALSE,
              File(TRUE, <<ImgEntry("1", "ok", 2, 1), ImgEntry("2", "ok", 3, 3),
                           ImgEntry("3", "error", 1, 1)>>))

SessionListings == { <<ComicG, ComicH, ComicZ>> }

SessionBrowseInputs == {<<keymap[k]>> : k \in {"up", "down"}} \cup {<<"ENTER">>}

SessionViewInputs == {<<keymap[k]>> : k \in {"next", "prev", "quit"}}

SessionInit ==
    /\ entries \in SessionListings
    /\ selected_idx = 0
    /\ archive = ClosedReader
    /\ page_cache = EmptyMap
    /\ current_page = 0
    /\ viewing_comic = FALSE
    /\ current_comic_filename = ""
    /\ zoom_level = ZoomDefault
    /\ pan_x = 0
    /\ pan_y = 0
    /\ double_page \in BOOLEAN
    /\ render_mode \in {"KITTY", "TIMG", "ASCII"}
    /\ progress \in ProgressInits
    /\ progress_file = progress
    /\ term \in Terms
    /\ raw_mode = FALSE
    /\ eof = FALSE
    /\ pc = "start"
    /\ op = "init"
    /\ arg = -1
    /\ prev_arg = -1
    /\ ret = <<>>
    /\ tokens = <<>>
    /\ was_viewing = FALSE
    /\ drew = "none"
    /\ out = <<>>

SessionBrowse ==
    /\ pc = "loop" /\ ~eof /\ ~viewing_comic
    /\ \E inp \in SessionBrowseInputs :
          \E r \in browse_key(Self, Padded(inp), SessionListings, {}) :
              /\ r.n = Len(inp)
              /\ Finish(r, inp)

SessionView ==
    /\ pc = "loop" /\ ~eof /\ viewing_comic
    /\ \E inp \in SessionViewInputs :
          \E r \in {view_key(Self, Padded(inp))} :
              /\ r.n = Len(inp)
              /\ Finish(r, inp)

SessionNext == Start \/ SessionBrowse \/ SessionView \/ EndOfInput

SpecSessions == SessionInit /\ [][SessionNext]_vars

(***************************************************************************)
(* The file list alone, started in a directory given by a relative name     *)
(* without a slash (the default "."), which gets no parent entry: the       *)
(* directory and its subdirectories hold zero, one or two subdirectories    *)
(* and no archive, and their contents change between scans.                 *)
(***************************************************************************)
DirA == FileEntry("a", TRUE, NoFile)

DirB == FileEntry("b", TRUE, NoFile)

ListListings == { <<>>, <<DirA>>, <<DirA, DirB>> }

ListInputs ==
    {<<keymap[k]>> : k \in {"refresh", "first_page", "last_page", "up", "down"}}
    \cup {<<"ENTER">>}
    \cup {<<"ESC", "[", b>> : b \in {"A", "B"}}

ListInit ==
    /\ entries \in ListListings
    /\ selected_idx = 0
    /\ archive = ClosedReader
    /\ page_cache = EmptyMap
    /\ current_page = 0
    /\ viewing_comic = FALSE
    /\ current_comic_filename = ""
    /\ zoom_level = ZoomDefault
    /\ pan_x = 0
    /\ pan_y = 0
    /\ double_page = DoublePageDefault
    /\ render_mode \in {"KITTY", "TIMG", "ASCII"}
    /\ progress \in ProgressInits
    /\ progress_file = progress
    /\ term \in Terms
    /\ raw_mode = FALSE
    /\ eof = FALSE
    /\ pc = "start"
    /\ op = "init"
    /\ arg = -1
    /\ prev_arg = -1
    /\ ret = <<>>
    /\ tokens = <<>>
    /\ was_viewing = FALSE
    /\ drew = "none"
    /\ out = <<>>

\* one iteration of the loop in the file list; what entries[-1] yields is
\* left open, the iteration then ends in "crashed"
ListStep ==
    /\ pc = "loop" /\ ~eof /\ ~viewing_comic
    /\ \E inp \in ListInputs :
          \E r \in browse_key(Self, Padded(inp), ListListings, {}) :
              /\ r.n = Len(inp)
              /\ Finish(r, inp)

ListNext == Start \/ ListStep \/ EndOfInput

SpecList == ListInit /\ [][ListNext]_vars

(***************************************************************************)
(* The graphics render called directly, as display_image calls it, from any *)
(* zoom of the range and any pan a view can have accumulated: the pan keys  *)
(* move the offsets between the renders.                                    *)
(***************************************************************************)
RenderTerms ==
    { [rows |-> 4, cols |-> 4, pixel_width |-> pw, pixel_height |-> ph] :
        pw \in {32, 64}, ph \in {90, 132, 164} }

\* images one, two or no pixels wide and high; the third does not decode
RenderImages == {<<1, 1>>, <<2, 1>>, <<1, 2>>, <<0, 1>>}

\* width_px: the whole terminal, or one half of a spread
RenderWidths == {0, 16}

RenderInit ==
    /\ entries = <<>>
    /\ selected_idx = 0
    /\ archive = ClosedReader
    /\ page_cache = EmptyMap
    /\ current_page = 0
    /\ viewing_comic = FALSE
    /\ current_comic_filename = ""
    /\ zoom_level \in ZoomMin..ZoomMax
    /\ pan_x \in {p \in -MaxPan..MaxPan : p % PanStep = 0}
    /\ pan_y \in {p \in -MaxPan..MaxPan : p % PanStep = 0}
    /\ double_page = DoublePageDefault
    /\ render_mode = "KITTY"
    /\ progress = EmptyMap
    /\ progress_file = EmptyMap
    /\ term \in RenderTerms
    /\ raw_mode = FALSE
    /\ eof = FALSE
    /\ pc = "api"
    /\ tokens = <<>>
    /\ was_viewing = FALSE
    /\ drew = "none"
    /\ out = <<>>
    /\ op = "init"
    /\ arg = -1
    /\ prev_arg = -1
    /\ ret = <<>>

RenderKitty(img_data, width_px) ==
    /\ \E r \in {render_kitty(Self, img_data, 0, width_px)} :
          /\ Commit(r.S)
          /\ out' = r.out
    /\ ret' = KittyWrites(Self, img_data, 0, width_px)
    /\ op' = "render_kitty"
    /\ arg' = [img_data |-> img_data, width_px |-> width_px]
    /\ prev_arg' = -1
    /\ UNCHANGED <<raw_mode, eof, pc, tokens, was_viewing, drew>>

RenderPan(dir) ==
    /\ \E t \in {do_pan(Self, dir)} :
          /\ t.navigate
          /\ PanWithinCap(t.S)
          /\ Commit(t.S)
    /\ op' = "do_pan"
    /\ arg' = dir
    /\ prev_arg' = -1
    /\ ret' = <<>>
    /\ UNCHANGED loopVars

RenderNext ==
    \/ \E img_data \in RenderImages, width_px \in RenderWidths :
          RenderKitty(img_data, width_px)
    \/ \E dir \in {"K", "J", "H", "L"} : RenderPan(dir)

SpecRender == RenderInit /\ [][RenderNext]_vars

(***************************************************************************)
(* The reader driven directly: open, read_page in any order, close.         *)
(***************************************************************************)
MaxEntries == 3

Img(c) == <<c, ".", "p", "n", "g">>

ReaderEntries ==
    { Entry(Img("a"), "ok", <<11, 12>>), Entry(Img("b"), "ok", <<21, 22>>),
      Entry(Img("c"), "ok", <<31, 32>>),
      Entry(<<"n", ".", "t", "x", "t">>, "ok", <<41, 42>>),
      Entry(Img("e"), "empty", <<>>), Entry(Img("f"), "error", <<61, 62>>),
      Entry(Img("t"), "partial", <<71, 72>>) }

ReaderFiles ==
    {File(TRUE, s) : s \in InjSeqs(ReaderEntries, MaxEntries)}
        \cup {File(FALSE, <<>>)}

\* the members and surroundings the direct calls below leave alone
IdleInit ==
    /\ selected_idx = 0
    /\ current_page = 0
    /\ viewing_comic = FALSE
    /\ current_comic_filename = ""
    /\ zoom_level = ZoomDefault
    /\ pan_x = 0
    /\ pan_y = 0
    /\ double_page = DoublePageDefault
    /\ render_mode = "KITTY"
    /\ progress = EmptyMap
    /\ progress_file = EmptyMap
    /\ term \in Terms
    /\ raw_mode = FALSE
    /\ eof = FALSE
    /\ pc = "api"
    /\ tokens = <<>>
    /\ was_viewing = FALSE
    /\ drew = "none"
    /\ out = <<>>

others ==
    <<entries, selected_idx, page_cache, current_page, viewing_comic,
      current_comic_filename, zoom_level, pan_x, pan_y, double_page,
      render_mode, progress, progress_file, term, loopVars>>

RdInit ==
    /\ IdleInit
    /\ entries \in {<<FileEntry("x.cbz", FALSE, f)>> : f \in ReaderFiles}
    /\ archive = ClosedReader
    /\ page_cache = EmptyMap
    /\ op = "init"
    /\ arg = -1
    /\ prev_arg = -1
    /\ ret = <<>>

RdOpen ==
    /\ \E o \in open(archive, entries[1].full_path) :
          /\ archive' = o.archive
          /\ op' = IF o.ok THEN "open_ok" ELSE "open_fail"
    /\ arg' = -1
    /\ prev_arg' = -1
    /\ ret' = <<>>
    /\ UNCHANGED others

RdRead(i) ==
    /\ LET r == read_page(archive, i)
       IN  /\ archive' = r.archive
           /\ ret' = r.data
    /\ op' = "read_page"
    /\ arg' = i
    /\ prev_arg' = IF op = "read_page" THEN arg ELSE -1
    /\ UNCHANGED others

RdClose ==
    /\ archive' = close(archive)
    /\ op' = "close"
    /\ arg' = -1
    /\ prev_arg' = -1
    /\ ret' = <<>>
    /\ UNCHANGED others

RdNext ==
    \/ RdOpen
    \/ \E i \in 0..MaxEntries : RdRead(i)
    \/ RdClose

SpecReader == RdInit /\ [][RdNext]_vars

(***************************************************************************)
(* The index alone: open and close over archives whose names exercise the   *)
(* comparator.                                                              *)
(***************************************************************************)
Page(n) == <<"p", "a", "g", "e">> \o n \o <<".", "j", "p", "g">>

Png(n) == n \o <<".", "p", "n", "g">>

IndexNames ==
    { Page(<<"1">>), Page(<<"2">>), Page(<<"1", "0">>),
      Png(<<"c", "1">>), Png(<<"c", "2">>), Png(<<"c", "3">>),
      <<"C", "4", ".", "P", "N", "G">>,
      <<"n", ".", "t", "x", "t">>,
      Png(<<"0", "0", "0", "0", "0", "0", "1">>),
      Png(Png(<<"1">>) \o <<"0", "1">>), Png(Png(<<"1">>) \o <<"2">>) }

IndexFiles ==
    {File(TRUE, s) :
        s \in InjSeqs({Entry(n, "ok", <<1, 2>>) : n \in IndexNames}, MaxEntries)}

IxInit ==
    /\ IdleInit
    /\ entries \in {<<FileEntry("x.cbz", FALSE, f)>> : f \in IndexFiles}
    /\ archive = ClosedReader
    /\ page_cache = EmptyMap
    /\ op = "init"
    /\ arg = -1
    /\ prev_arg = -1
    /\ ret = <<>>

IxNext == RdOpen \/ RdClose

SpecIndex == IxInit /\ [][IxNext]_vars

(***************************************************************************)
(* The page cache driven directly: one archive is opened and load_page is   *)
(* asked for any ordinal, in any order, the ordinals just outside the index *)
(* included.                                                                *)
(***************************************************************************)
CachePages == 5

\* an archive of CachePages images named a.png, b.png, ... in page order;
\* the payloads of the stream positions in `bad` are empty
CacheStream(bad) ==
    [k \in 1..CachePages |->
        Entry(Img(Lower[k]), IF k \in bad THEN "empty" ELSE "ok", <<k, k>>)]

CacheFiles == {File(TRUE, CacheStream(bad)) : bad \in {{}, {CachePages - 1}}}

ChInit ==
    /\ IdleInit
    /\ entries \in {<<FileEntry("x.cbz", FALSE, f)>> : f \in CacheFiles}
    /\ archive = ClosedReader
    /\ page_cache = EmptyMap
    /\ op = "init"
    /\ arg = -1
    /\ prev_arg = -1
    /\ ret = <<>>

\* archive.open on a closed reader, as line 859 calls it
ChOpen ==
    /\ archive.archive_handle = NullHandle
    /\ RdOpen

\* load_page(p), as draw_comic_view and preload_adjacent call it
ChLoad(p) ==
    /\ archive.archive_handle # NullHandle
    /\ \E l \in {load_page(Self, p)} :
          /\ Commit(l.S)
          /\ ret' = l.data
    /\ op' = "load_page"
    /\ arg' = p
    /\ prev_arg' = IF op = "load_page" THEN arg ELSE -1
    /\ UNCHANGED loopVars

\* archive.close() and page_cache.clear(), as lines 908-909 call them
ChLeave ==
    /\ archive.archive_handle # NullHandle
    /\ Commit(LeaveView(Self))
    /\ op' = "close"
    /\ arg' = -1
    /\ prev_arg' = -1
    /\ ret' = <<>>
    /\ UNCHANGED loopVars

ChNext ==
    \/ ChOpen
    \/ \E p \in (-1)..CachePages : ChLoad(p)
    \/ ChLeave

SpecCache == ChInit /\ [][ChNext]_vars

(***************************************************************************)
(* Claims about the reader and the index                                    *)
(***************************************************************************)
\* every image entry of the file has a payload that reads whole and non-empty
WellFormed(f) ==
    \A k \in DOMAIN f.stream :
        IsImageName(f.stream[k].name)
            => f.stream[k].kind = "ok" /\ f.stream[k].data # <<>>

ImageCount(f) ==
    Cardinality({k \in DOMAIN f.stream : IsImageName(f.stream[k].name)})

StreamPos(i) == archive.entries[i + 1].index_in_archive

InRange(i) == 0 <= i /\ i < page_count(archive)

\* C1: on a successfully opened archive of N well-formed image entries,
\* page_count() is N and read_page(i), 0 <= i < N, returns the non-empty
\* payload of the i-th indexed entry, whatever was read before.
C1_ReadPageAlwaysDelivers ==
    (archive.archive_handle # NullHandle /\ archive.entries # <<>>
        /\ WellFormed(archive.archive_path))
    => /\ page_count(archive) = ImageCount(archive.archive_path)
       /\ (op = "read_page" /\ InRange(arg))
            => /\ ret # <<>>
               /\ ret = archive.archive_path.stream[StreamPos(arg) + 1].data

\* the session as open leaves it: stream reopened, nothing consumed
FreshSession(R) == [R EXCEPT !.archive_handle = 0, !.current_entry = NoEntry]

\* C2: read_page(i) then read_page(j), with j before i in the stream, returns
\* for j the bytes read_page(j) returns on a freshly opened session.
C2_RewindSameBytes ==
    (op = "read_page" /\ InRange(arg) /\ InRange(prev_arg)
        /\ StreamPos(arg) < StreamPos(prev_arg))
    => ret = read_page(FreshSession(archive), arg).data

C2_Witness ==
    /\ op = "read_page" /\ InRange(arg) /\ InRange(prev_arg)
    /\ StreamPos(arg) < StreamPos(prev_arg)
    /\ arg > prev_arg
    /\ ret = archive.archive_path.stream[StreamPos(arg) + 1].data
    /\ ret # <<>>

\* a and b are the same but for one run of digits, a's the smaller integer
OneRunLess(a, b) ==
    \E i \in 1..Len(a) :
        /\ i <= Len(b)
        /\ SubSeq(a, 1, i - 1) = SubSeq(b, 1, i - 1)
        /\ (i = 1 \/ ~isdigit(a[i - 1]))
        /\ isdigit(a[i]) /\ isdigit(b[i])
        /\ LET ea == DigitRunEnd(a, i)
               eb == DigitRunEnd(b, i)
           IN  /\ SubSeq(a, ea, Len(a)) = SubSeq(b, eb, Len(b))
               /\ stoll(SubSeq(a, i, ea - 1)) < stoll(SubSeq(b, i, eb - 1))

\* C3: after open, of two indexed names that are the same but for one run of
\* digits, the one with the smaller integer has the smaller ordinal.
C3_NaturalOrder ==
    op = "open_ok"
    => \A i, j \in DOMAIN archive.entries :
          OneRunLess(archive.entries[i].name, archive.entries[j].name) => i < j

(***************************************************************************)
(* Claims about the page cache                                              *)
(***************************************************************************)
InWindow(p) ==
    /\ \A q \in DOMAIN page_cache : Abs(q - p) <= CacheRadius
    /\ Cardinality(DOMAIN page_cache) <= 2 * CacheRadius + 1

\* C4, as stated: after every request load_page(p), whatever it returned,
\* every cached ordinal q has |q - p| <= 2 and the cache holds at most 5
\* pages.
C4_WindowAfterEveryRequest == op = "load_page" => InWindow(arg)

\* C4, amended: after every request load_page(p) that returned a page (from
\* the cache or newly loaded), every cached ordinal q has |q - p| <= 2 and
\* the cache holds at most 5 pages.
C4_WindowAfterDelivery == (op = "load_page" /\ ret # <<>>) => InWindow(arg)

\* the requests 0, 1, 2, 3, 4 have been served and the pages 0 and 1 evicted
C4_Witness ==
    /\ op = "load_page" /\ ret # <<>>
    /\ arg = CachePages - 1 /\ prev_arg = CachePages - 2
    /\ DOMAIN page_cache = (CachePages - 3)..(CachePages - 1)

(***************************************************************************)
(* Claims about the event loop                                              *)
(***************************************************************************)
\* the iteration just completed opened an archive from the file list
JustOpened == op = "key" /\ ~was_viewing /\ viewing_comic

\* the iteration just completed failed to open the selected archive
OpenFailed == op = "key" /\ ~was_viewing /\ out = <<"open_failed">>

InIndex(p, R) == 0 <= p /\ p < page_count(R)

\* C5: when an archive is opened from the file list, the current page is the
\* page saved for its name if one is saved and lies in [0, page_count - 1],
\* and 0 in every other case.
C5_RestoredPageInRange ==
    [][(~viewing_comic /\ viewing_comic')
         => current_page' =
              IF /\ current_comic_filename' \in DOMAIN progress
                 /\ InIndex(progress[current_comic_filename'], archive')
              THEN progress[current_comic_filename'] ELSE 0]_vars

C7_OpenFailureLeavesNoSession ==
    OpenFailed
    => /\ ~viewing_comic
       /\ page_cache = EmptyMap
       /\ page_count(archive) = 0
       /\ archive.archive_handle = NullHandle

\* C8: the quit key in the view closes the archive, empties the cache and
\* shows the file list, and the loop goes on; the loop ends only on the quit
\* key in the file list or at the end of input.
C8_QuitInViewReturnsToList ==
    /\ (op = "key" /\ was_viewing /\ tokens = <<keymap.quit>>)
         => /\ pc = "loop"
            /\ ~viewing_comic
            /\ archive.archive_handle = NullHandle
            /\ page_count(archive) = 0
            /\ page_cache = EmptyMap
    /\ pc = "exited"
         => \/ ~was_viewing /\ tokens = <<keymap.quit>>
            \/ tokens = <<"EOF">>

C8_Witness ==
    /\ op = "key" /\ was_viewing /\ tokens = <<keymap.quit>>
    /\ pc = "loop" /\ ~viewing_comic /\ page_cache = EmptyMap

\* C9: an iteration in the view that begins with an ESC that starts no escape
\* sequence closes the archive, empties the cache and shows the file list,
\* and consumes no token typed after the ESC.
C9_EscapeAloneLeavesView ==
    (op = "key" /\ was_viewing /\ Len(tokens) >= 2
        /\ tokens[1] = "ESC" /\ tokens[2] # "[")
    => /\ ~viewing_comic
       /\ page_cache = EmptyMap
       /\ archive.archive_handle = NullHandle
       /\ \A k \in 2..Len(tokens) : tokens[k] = "EOF"

NextTokens == {<<keymap.next>>, <<"ESC", "[", "C">>}

PrevTokens == {<<keymap.prev>>, <<"ESC", "[", "D">>}

\* C10: in the view, on page p of N with step s, a next-page key sets the
\* page to min(p + s, N - 1) and a prev-page key to max(p - s, 0).
C10_PagingClamped ==
    [][(viewing_comic /\ viewing_comic' /\ InIndex(current_page, archive))
         => /\ tokens' \in NextTokens
                => current_page' = Min(current_page + PageStep(Self),
                                       page_count(archive) - 1)
            /\ tokens' \in PrevTokens
                => current_page' = Max(current_page - PageStep(Self), 0)]_vars

\* the step the specification gives paging: 2 when the spread flag is set and
\* a spread is eligible, else 1
EligibleStep == IF effective_double(Self) THEN 2 ELSE 1

\* C11: a next-page or prev-page key that changes the page moves it by 2
\* exactly when the spread flag is set, zoom is 1.0 and the renderer is
\* KITTY or TIMG, and by 1 in every other case (prev stopping at page 0).
C11_StepFollowsEligibility ==
    [][(viewing_comic /\ viewing_comic' /\ InIndex(current_page, archive)
          /\ current_page' # current_page)
         => /\ tokens' \in NextTokens
                => current_page' = current_page + EligibleStep
            /\ tokens' \in PrevTokens
                => current_page' = Max(current_page - EligibleStep, 0)]_vars

C13_ZoomBounded ==
    [][/\ zoom_level' \in ZoomMin..ZoomMax
       /\ (viewing_comic /\ tokens' = <<keymap.zoom_in>>)
            => zoom_level' = IF zoom_level = ZoomMax THEN ZoomMax
                             ELSE zoom_level + 1
       /\ (viewing_comic /\ tokens' \in {<<keymap.zoom_out>>, <<keymap.zoom_out_alt>>})
            => zoom_level' = IF zoom_level = ZoomMin THEN ZoomMin
                             ELSE zoom_level - 1
       /\ (viewing_comic /\ tokens' = <<keymap.zoom_reset>>)
            => zoom_level' = ZoomDefault /\ pan_x' = 0 /\ pan_y' = 0]_vars

\* a zoom-in at 3.0 has left the zoom at 3.0
C13_Witness ==
    /\ op = "key" /\ was_viewing /\ viewing_comic
    /\ tokens = <<keymap.zoom_in>> /\ drew = "comic"
    /\ zoom_level = ZoomMax
    /\ pan_x # 0

PanTokens ==
    {<<keymap[k]>> : k \in {"pan_up", "pan_down", "pan_left", "pan_right"}}
    \cup {<<"ESC", "[", "1", ";", "2", d>> : d \in {"A", "B", "C", "D"}}

\* C14: a pan key or Shift-arrow sequence received in the view while the
\* zoom is 1.0 changes neither pan, zoom, page nor cache, and the pan
\* offsets are (0,0) afterwards.
C14_PanAtDefaultZoomIsNoOp ==
    [][(viewing_comic /\ zoom_level = ZoomDefault /\ tokens' \in PanTokens)
         => /\ UNCHANGED <<pan_x, pan_y, zoom_level, current_page, page_cache>>
            /\ pan_x' = 0 /\ pan_y' = 0]_vars

Rendered == op = "render_kitty" /\ Decodes(arg.img_data)

\* C15: after the clamp of the graphics render the crop rectangle lies inside
\* the scaled image and the target on both axes (0 <= crop_x, crop_x + crop_w
\* <= scaled_w, crop_w <= target_w, likewise for y), and each pan offset lies
\* in [-max(0, scaled - target), 0].
C15_CropInsideScaledAndTarget ==
    Rendered =>
        /\ 0 <= ret.crop.crop_x
        /\ ret.crop.crop_x + ret.crop.crop_w <= ret.scaled[1]
        /\ ret.crop.crop_w <= ret.target[1]
        /\ 0 <= ret.crop.crop_y
        /\ ret.crop.crop_y + ret.crop.crop_h <= ret.scaled[2]
        /\ ret.crop.crop_h <= ret.target[2]
        /\ -Max(0, ret.scaled[1] - ret.target[1]) <= pan_x /\ pan_x <= 0
        /\ -Max(0, ret.scaled[2] - ret.target[2]) <= pan_y /\ pan_y <= 0

\* a zoomed render whose clamped pan puts the crop against the right edge of
\* the scaled image
C15_Witness ==
    /\ Rendered
    /\ zoom_level = 11
    /\ pan_x < 0 /\ pan_x > -PanStep
    /\ ret.crop.crop_x + ret.crop.crop_w = ret.scaled[1]
    /\ ret.crop.crop_w = ret.target[1]

Frames == Tail(ret.writes)

\* C16: an encoding of L characters is sent as ceil(L / 4096) frames in
\* order, none longer than 4096; the continuation flag is 1 on every frame
\* but the last and 0 on the last; only the first frame carries the pixel
\* dimensions and cell counts; the cursor positioning is written first.
C16_Framing ==
    Rendered =>
        /\ ret.writes[1].kind = "cursor"
        /\ Len(Frames) = (ret.b64_size + 4095) \div 4096
        /\ \A i \in 1..Len(Frames) :
              /\ Frames[i].kind = "frame"
              /\ Frames[i].offset = (i - 1) * 4096
              /\ Frames[i].payload <= 4096
              /\ Frames[i].offset + Frames[i].payload
                   = (IF i = Len(Frames) THEN ret.b64_size ELSE i * 4096)
              /\ Frames[i].m = (IF i = Len(Frames) THEN 0 ELSE 1)
              /\ (Frames[i].dims # <<>>) <=> (i = 1)
              /\ i = 1 => Frames[i].dims[1] = ret.crop.crop_w
                          /\ Frames[i].dims[2] = ret.crop.crop_h

\* a payload of exactly two full frames
C16_Witness ==
    /\ Rendered
    /\ ret.b64_size = 2 * chunk_sz
    /\ Len(Frames) = 2
    /\ Frames[1].m = 1 /\ Frames[2].m = 0

\* C17: when the image bytes do not decode, the graphics render writes a
\* failure notice and no protocol frame, and leaves the pan offsets and the
\* zoom as they were before the call.
C17_DecodeFailureHarmless ==
    [][(op' = "render_kitty" /\ ~Decodes(arg'.img_data))
         => /\ out' = <<"decode_notice">>
            /\ ret'.writes = <<[kind |-> "notice"]>>
            /\ UNCHANGED <<pan_x, pan_y, zoom_level>>]_vars

\* a failed decode at a zoom and with offsets that a render would have clamped
C17_Witness ==
    /\ op = "render_kitty" /\ ~Decodes(arg.img_data)
    /\ out = <<"decode_notice">>
    /\ zoom_level = ZoomMax /\ pan_x > 0 /\ pan_y < 0

\* the escape sequences each state acts on
Recognized ==
    IF viewing_comic
    THEN {<<"ESC", "[", b>> : b \in {"C", "D"}}
         \cup {<<"ESC", "[", "1", ";", "2", d>> : d \in {"A", "B", "C", "D"}}
    ELSE {<<"ESC", "[", b>> : b \in {"A", "B"}}

\* C18: in the file list and in the view, an iteration that reads tokens of
\* an escape sequence the state does not recognize (its first tokens, or the
\* ones a previous iteration left unread) changes no state and redraws
\* nothing.
C18_UnknownEscapeDiscarded ==
    [][(pc = "loop" /\ pc' = "loop"
          /\ \/ ret # <<>>
             \/ tokens'[1] = "ESC" /\ (tokens' \o ret') \notin Recognized)
         => UNCHANGED members /\ drew' = "none"]_vars

\* C19: whenever the event loop has ended, by the quit key in the file list
\* or by the end of input in the list or in the view, the terminal is back in
\* the input mode it had before enable_raw_mode.
C19_TerminalRestoredOnExit ==
    [][pc' = "exited" => (raw_mode /\ ~raw_mode')]_vars

\* the input ended while a comic was shown
C19_Witness ==
    /\ pc = "exited" /\ ~raw_mode
    /\ viewing_comic /\ tokens = <<"EOF">>

\* the bytes of page p of the archive the reader R holds
SessionPage(R, p) ==
    PayloadRead(R.archive_path.stream[R.entries[p + 1].index_in_archive + 1])

\* C20: when an archive becomes the open one, the reader was released by the
\* previous session (no handle, empty index, cursor at the sentinel) or is
\* released by open itself, which starts every new session with the cursor at
\* the sentinel and an index of the new archive alone; the page cache held
\* nothing before and holds only pages of the new archive afterwards.
C20_NothingLeaksAcrossSessions ==
    [][(~viewing_comic /\ viewing_comic')
         => /\ page_cache = EmptyMap
            /\ archive.entries = <<>> /\ archive.current_entry = NoEntry
            /\ \A o \in open(archive, entries[selected_idx + 1].full_path) :
                  /\ o.archive.current_entry = NoEntry
                  /\ o.archive.archive_path = entries[selected_idx + 1].full_path
                  /\ \A e \in Range(o.archive.entries) :
                        e.name = o.archive.archive_path
                                   .stream[e.index_in_archive + 1].name
            /\ archive'.archive_handle # NullHandle
            /\ archive'.archive_path = entries[selected_idx + 1].full_path
            /\ \A p \in DOMAIN page_cache' :
                  /\ 0 <= p /\ p < page_count(archive')
                  /\ page_cache'[p] = SessionPage(archive', p)]_vars

\* h.cbz has just been opened and drawn, after a session on g.cbz that
\* reached its last page
C20_Witness ==
    /\ op = "key" /\ ~was_viewing /\ viewing_comic
    /\ current_comic_filename = "h.cbz"
    /\ "g.cbz" \in DOMAIN progress /\ progress["g.cbz"] = 2
    /\ page_cache # EmptyMap
    /\ selected_idx = 1

(***************************************************************************)
(* Claims C21 to C30                                                        *)
(***************************************************************************)
\* the entry of the stream that holds page i of the open archive
TargetEntry(i) == archive.archive_path.stream[StreamPos(i) + 1]

\* C21: read_page returns empty bytes when the ordinal is out of range or the
\* session is closed, leaving cursor and stream untouched then, and when the
\* payload of the target entry is empty, fails to read or reads only partly.
C21_ReadPageEmptyOnFailure ==
    [][op' = "read_page"
         => /\ (~InRange(arg') \/ archive.archive_handle = NullHandle)
                 => ret' = <<>> /\ archive' = archive
            /\ (InRange(arg') /\ archive.archive_handle # NullHandle
                  /\ TargetEntry(arg').kind # "ok")
                 => ret' = <<>>]_vars

\* C22: when the current page cannot be read, the redraw of the view writes
\* a failure notice in place of the image and no protocol frame, and the
\* view stays open.
C22_UnreadablePageNoticed ==
    (op = "key" /\ was_viewing /\ drew = "comic"
        /\ InRange(current_page) /\ TargetEntry(current_page).kind = "error")
    => /\ viewing_comic
       /\ \E k \in DOMAIN out : out[k] \in {"decode_notice", "empty_notice"}
       /\ \A k \in DOMAIN out : out[k] # "kitty_image"

\* C23: an iteration in the view that changes the page, the zoom, a pan
\* offset or the spread flag redraws the view before the next token is read,
\* whichever key or escape sequence delivered the change.
C23_ViewChangeRedraws ==
    [][(viewing_comic /\ viewing_comic' /\ op' = "key"
          /\ <<current_page, zoom_level, pan_x, pan_y, double_page>>'
               # <<current_page, zoom_level, pan_x, pan_y, double_page>>)
         => drew' = "comic"]_vars

\* the largest pan magnitudes <<x, y>> for the page shown, alone on the
\* terminal at the current zoom; none when the page is not held decoded
MaxPanNow ==
    IF current_page \in DOMAIN page_cache /\ Decodes(page_cache[current_page])
    THEN KittyMaxPan(KittyScaled(Self, page_cache[current_page],
                                 KittyTarget(Self, 0)),
                     KittyTarget(Self, 0))
    ELSE <<0, 0>>

\* C24: in the view, once an iteration has ended, each pan offset lies in
\* [-max_pan, 0] for the current zoom and terminal, and is 0 at zoom 1.0, in
\* every render mode and whether or not the current page decoded.
C24_PanWithinRange ==
    (viewing_comic /\ op = "key")
    => /\ -MaxPanNow[1] <= pan_x /\ pan_x <= 0
       /\ -MaxPanNow[2] <= pan_y /\ pan_y <= 0
       /\ zoom_level = ZoomDefault => pan_x = 0 /\ pan_y = 0

\* C25: a load_page that misses and whose read returns empty bytes leaves the
\* cache as it was; a miss whose read returns bytes inserts them and evicts
\* exactly the ordinals more than 2 away; a hit returns the cached bytes and
\* touches neither the cache nor the archive cursor.
C25_CacheChangesOnlyOnDelivery ==
    [][op' = "load_page"
         => /\ arg' \in DOMAIN page_cache
                 => /\ ret' = page_cache[arg']
                    /\ UNCHANGED <<page_cache, archive>>
            /\ (arg' \notin DOMAIN page_cache /\ ret' = <<>>)
                 => UNCHANGED page_cache
            /\ (arg' \notin DOMAIN page_cache /\ ret' # <<>>)
                 => /\ DOMAIN page_cache'
                         = {q \in DOMAIN page_cache : Abs(q - arg') <= 2} \cup {arg'}
                    /\ page_cache'[arg'] = ret'
                    /\ \A q \in DOMAIN page_cache' \ {arg'} :
                          page_cache'[q] = page_cache[q]]_vars

\* a page that cannot be read was requested while the cache held a page more
\* than 2 away from it, which is still cached
C25_Witness ==
    /\ op = "load_page" /\ ret = <<>> /\ InRange(arg)
    /\ \E q \in DOMAIN page_cache : Abs(q - arg) > CacheRadius

\* C27: any two ordinals held in the page cache differ by at most 2, so the
\* cache never holds more than 3 pages, whatever was requested and whether or
\* not the requests delivered.
C27_CacheSpanAtMostTwo ==
    /\ \A p \in DOMAIN page_cache : \A q \in DOMAIN page_cache : Abs(p - q) <= 2
    /\ Cardinality(DOMAIN page_cache) <= 3

\* three pages are cached after a request that failed
C27_Witness ==
    /\ op = "load_page" /\ ret = <<>>
    /\ Cardinality(DOMAIN page_cache) = 3

\* the read_page just called found an open session and an ordinal in range
ReadInRange == op' = "read_page" /\ InRange(arg') /\ archive.archive_handle # NullHandle

\* C26, as stated: read_page closes and reopens the stream only when the
\* cursor is strictly past the target; with the cursor at the sentinel, or at
\* or before the target, it does not reopen and only walks forward.
C26_RewindOnlyWhenPast ==
    [][ReadInRange
         => /\ read_page(archive, arg').reopened
                 <=> archive.current_entry > StreamPos(arg')
            /\ ~read_page(archive, arg').reopened
                 => archive'.current_entry >= archive.current_entry]_vars

\* C26, amended: read_page closes and reopens the stream when the cursor is
\* strictly past the target and also when it is at the sentinel, and what it
\* then returns is what a fresh session returns; with the cursor at or before
\* the target it does not reopen and only walks forward.
C26_RewindWhenPastOrAtStart ==
    [][ReadInRange
         => /\ read_page(archive, arg').reopened
                 <=> (archive.current_entry > StreamPos(arg')
                        \/ archive.current_entry = NoEntry)
            /\ read_page(archive, arg').reopened
                 => /\ ret' = read_page(FreshSession(archive), arg').data
                    /\ archive' = read_page(FreshSession(archive), arg').archive
            /\ ~read_page(archive, arg').reopened
                 => /\ archive'.current_entry >= archive.current_entry
                    /\ archive'.archive_handle >= archive.archive_handle]_vars

\* the first read of a session delivered a page beyond the first entry
C26_Witness ==
    /\ op = "read_page" /\ prev_arg = -1 /\ InRange(arg)
    /\ ret # <<>> /\ StreamPos(arg) > 0
    /\ archive.current_entry = StreamPos(arg)

\* C28: in every state of the view the current page is an ordinal of the
\* index, 0 <= current_page < page_count(), whatever progress value was
\* saved and whatever keys followed the open.
C28_CurrentPageValid ==
    viewing_comic => (0 <= current_page /\ current_page < page_count(archive))

\* C29: while the file list is shown and the listing is not empty, the
\* selected index is an index into it, whatever keys were pressed and however
\* the directory changed between scans, and Enter never indexes outside the
\* listing.
C29_SelectionValid ==
    /\ (~viewing_comic /\ entries # <<>>)
          => (0 <= selected_idx /\ selected_idx < Len(entries))
    /\ pc # "crashed"

\* C30: natural_sort_compare is a strict weak ordering on the names of any
\* index (irreflexive, transitive, with transitive incomparability), names
\* with leading zeros or digit runs of different lengths included.
C30_ComparatorStrictWeak ==
    archive.entries # <<>> => StrictWeakOn(Range(archive.entries))

(***************************************************************************)
(* The event loop over one comic of PagingPages pages whose stream holds    *)
(* them in page order, after an entry that is no image, and whose payloads  *)
(* all read whole: the comic is opened at any saved page and paged in both  *)
(* directions, one page or two at a time, zoomed or not.                    *)
(***************************************************************************)
PagingPages == 6

ComicP ==
    FileEntry("p.cbz", FALSE,
              File(TRUE, <<TextEntry>> \o
                         [k \in 1..PagingPages |->
                             ImgEntry(Digits[k + 1], "ok", k, 1)]))

PagingListings == { <<ComicP>> }

PagingProgress ==
    {EmptyMap} \cup {MapPut(EmptyMap, "p.cbz", v) : v \in 0..(PagingPages - 1)}

PagingViewInputs ==
    {<<keymap[k]>> : k \in {"next", "prev", "first_page", "last_page",
                             "toggle_spread", "zoom_in", "zoom_reset", "quit"}}
    \cup {<<"ESC", "[", b>> : b \in {"C", "D"}}

PagingInit ==
    /\ entries \in PagingListings
    /\ selected_idx = 0
    /\ archive = ClosedReader
    /\ page_cache = EmptyMap
    /\ current_page = 0
    /\ viewing_comic = FALSE
    /\ current_comic_filename = ""
    /\ zoom_level = ZoomDefault
    /\ pan_x = 0
    /\ pan_y = 0
    /\ double_page \in BOOLEAN
    /\ render_mode \in {"KITTY", "TIMG", "ASCII"}
    /\ progress \in PagingProgress
    /\ progress_file = progress
    /\ term \in Terms
    /\ raw_mode = FALSE
    /\ eof = FALSE
    /\ pc = "start"
    /\ op = "init"
    /\ arg = -1
    /\ prev_arg = -1
    /\ ret = <<>>
    /\ tokens = <<>>
    /\ was_viewing = FALSE
    /\ drew = "none"
    /\ out = <<>>

\* Enter on the comic in the file list
PagingOpen ==
    /\ pc = "loop" /\ ~eof /\ ~viewing_comic
    /\ \E inp \in {<<"ENTER">>} :
          \E r \in browse_key(Self, Padded(inp), PagingListings, {}) :
              /\ r.n = Len(inp)
              /\ Finish(r, inp)

\* one iteration of the loop in the comic view
PagingView ==
    /\ pc = "loop" /\ ~eof /\ viewing_comic
    /\ \E inp \in PagingViewInputs :
          \E r \in {view_key(Self, Padded(inp))} :
              /\ r.n = Len(inp)
              /\ WithinCaps(r.S)
              /\ Finish(r, inp)

PagingNext == Start \/ PagingOpen \/ PagingView \/ EndOfInput

SpecPaging == PagingInit /\ [][PagingNext]_vars

(***************************************************************************)
(* Claim C31                                                                *)
(***************************************************************************)
\* load_page(S, p) misses the cache and read_page reopens the stream for it
LoadRewinds(S, p) ==
    p \notin DOMAIN S.page_cache /\ read_page(S.archive, p).reopened

\* the loads of lines 726-727 and 739, in the order the draw makes them
ShownRewinds(S) ==
    IF effective_double(S) /\ S.current_page + 1 < page_count(S.archive)
    THEN \/ LoadRewinds(S, S.current_page)
         \/ LoadRewinds(load_page(S, S.current_page).S, S.current_page + 1)
    ELSE LoadRewinds(S, S.current_page)

\* the load of line 488, made on T, the reader after the load of line 486
PrefetchPrevRewinds(T) == T.current_page > 0 /\ LoadRewinds(T, T.current_page - 1)

\* the loads of preload_adjacent, lines 486-488, in order
PrefetchRewinds(S) ==
    IF S.current_page + 1 < page_count(S.archive)
    THEN \/ LoadRewinds(S, S.current_page + 1)
         \/ PrefetchPrevRewinds(load_page(S, S.current_page + 1).S)
    ELSE PrefetchPrevRewinds(S)

\* some load of draw_comic_view(S) reopens the stream
DrawRewinds(S) ==
    ShownRewinds(S) \/ PrefetchRewinds(SaveProgress(ShowPages(S).S))

\* the iteration just made was a next-page key in the view that moved the
\* page and redrew
NextPageDrawn ==
    /\ viewing_comic /\ op' = "key" /\ tokens' \in NextTokens
    /\ drew' = "comic"

\* C31: on an archive whose stream order is its page order and whose reads
\* all succeed, once the draw that follows the open is done, no next-page
\* key (one page or two at a time, with its redraw and prefetch) makes
\* read_page reopen the stream: every miss of the cache is served by
\* walking forward, so the cursor and the stream position never go back.
C31_NextPageNeverRewinds ==
    [][NextPageDrawn
         => /\ ~DrawRewinds(NextPage(Self).S)
            /\ archive'.current_entry >= archive.current_entry
            /\ archive'.archive_handle >= archive.archive_handle]_vars

\* two pages at a time, a next-page key has just shown pages 5 and 6: the
\* cursor rests on page 6, read by walking forward, and page 3 is evicted
C31_Witness ==
    /\ op = "key" /\ tokens \in NextTokens /\ was_viewing /\ drew = "comic"
    /\ double_page /\ current_page = 4
    /\ DOMAIN page_cache = {3, 4, 5}
    /\ archive.current_entry = StreamPos(5)

====
